---- MODULE Spec2Model ----
(***************************************************************************)
(* A model of priv/scripts/xlsx_to_csv.py: the command-line script that    *)
(* streams the rows of a workbook's active sheet through csv.writer.       *)
(*                                                                         *)
(* One action per statement of the script.  Every call into a collaborator *)
(* (load_workbook, open, the row iterator, writerow, wb.close, print) can  *)
(* either return or raise an Exception; a raised exception unwinds to the  *)
(* handler of lines 47-49, passing through the `with` block's release of   *)
(* the destination handle when it is raised inside that block.             *)
(*                                                                         *)
(* Text is a sequence of one-character strings.  A cell value is a record  *)
(* [type, repr]: its Python type and the text str() gives for it.          *)
(***************************************************************************)
EXTENDS Integers, Sequences, FiniteSets, TLC

VARIABLES
    pc,          \* the statement the script is at
    argc,        \* number of positional arguments, len(sys.argv) - 1
    destFile,    \* the destination path: [exists, records]
    wb,          \* the workbook reader: "unopened", "open" or "closed"
    sheet,       \* rows of the active sheet, known once the workbook is loaded
    csvfile,     \* the destination handle: "unopened", "open" or "closed"
    idx,         \* rows the sheet iterator has yielded so far
    values,      \* the list built at line 30 for the current row
    exc,         \* the exception in flight or handled ("" when none)
    stdout,      \* messages printed to standard output
    stderr,      \* messages printed to the error stream
    exitStatus,  \* process exit status, NoStatus while running
    destBefore   \* what the destination path held when the process started

vars == <<pc, argc, destFile, wb, sheet, csvfile, idx, values, exc,
          stdout, stderr, exitStatus, destBefore>>

----------------------------------------------------------------------------
(* Bounds *)

\* most positional arguments tried
MaxArgs == 3
\* most rows of a sheet
MaxRows == 2
\* most cells of a sheet, all rows together
MaxCells == 3
\* most fields of a record given to the writer on its own
MaxFields == 2
\* most characters of such a record's fields, all fields together
MaxChars == 2

----------------------------------------------------------------------------
(* Values *)

NoStatus == -1

Str(s) == [type |-> "str", repr |-> s]

None == [type |-> "NoneType", repr |-> <<"N", "o", "n", "e">>]

EmptyStr == Str(<<>>)

\* Cell values a sheet holds: null, and the falsy and ordinary scalars.
CellValues ==
    { None,
      EmptyStr,
      Str(<<"a", ",">>),
      [type |-> "int", repr |-> <<"0">>],
      [type |-> "bool", repr |-> <<"F", "a", "l", "s", "e">>] }

RECURSIVE RowsOfLen(_)
RowsOfLen(n) ==
    IF n = 0 THEN {<<>>}
    ELSE {Append(r, c) : r \in RowsOfLen(n - 1), c \in CellValues}

RowsUpTo(n) == UNION {RowsOfLen(k) : k \in 0..n}

\* Sheets of at most r rows holding at most c cells.
RECURSIVE SheetsWithin(_, _)
SheetsWithin(r, c) ==
    IF r = 0 THEN {<<>>}
    ELSE {<<>>} \cup
         UNION { { <<row>> \o s : s \in SheetsWithin(r - 1, c - Len(row)) }
                 : row \in RowsUpTo(c) }

Sheets == SheetsWithin(MaxRows, MaxCells)

\* What the destination path holds before the run: nothing, or an older file.
OldRecord == <<"o", "l", "d">>

Absent == [exists |-> FALSE, records |-> <<>>]

OldFile == [exists |-> TRUE, records |-> <<OldRecord>>]

----------------------------------------------------------------------------
(* csv.writer(csvfile).writerow, default dialect: delimiter ',',           *)
(* quotechar '"', doublequote, QUOTE_MINIMAL, lineterminator '\r\n'.       *)

Delimiter == ","

QuoteChar == "\""

LineTerminator == <<"\r", "\n">>

\* a dialect whose line terminator is left out of the characters that quote
IsSpecial_NoLineBreak(c) == c = Delimiter \/ c = QuoteChar

IsSpecial(c) ==
    \/ c = Delimiter
    \/ c = QuoteChar
    \/ \E i \in 1..Len(LineTerminator) : LineTerminator[i] = c

NeedsQuote(s) == \E i \in 1..Len(s) : IsSpecial(s[i])

RECURSIVE DoubleQuotes(_)
DoubleQuotes(s) ==
    IF s = <<>> THEN <<>>
    ELSE (IF Head(s) = QuoteChar THEN <<QuoteChar, QuoteChar>> ELSE <<Head(s)>>)
         \o DoubleQuotes(Tail(s))

Quoted(s) == <<QuoteChar>> \o DoubleQuotes(s) \o <<QuoteChar>>

\* A record of one empty field would be an empty line: the writer quotes it.
SoleEmptyField(vals, i) == Len(vals) = 1 /\ vals[i].repr = <<>>

FieldText(vals, i) ==
    IF NeedsQuote(vals[i].repr) \/ SoleEmptyField(vals, i)
    THEN Quoted(vals[i].repr)
    ELSE vals[i].repr

RECURSIVE JoinFields(_, _)
JoinFields(vals, n) ==
    IF n = 0 THEN <<>>
    ELSE IF n = 1 THEN FieldText(vals, 1)
    ELSE JoinFields(vals, n - 1) \o <<Delimiter>> \o FieldText(vals, n)

FormatRecord(vals) == JoinFields(vals, Len(vals)) \o LineTerminator

----------------------------------------------------------------------------
(* The script *)

Falsy(cell) ==
    \/ cell.type = "NoneType"
    \/ cell.type = "str" /\ cell.repr = <<>>
    \/ cell.type = "int" /\ cell.repr = <<"0">>
    \/ cell.type = "bool" /\ cell.repr = <<"F", "a", "l", "s", "e">>

\* cell.value or ''
CellOut_Truthy(cell) == IF ~Falsy(cell) THEN cell ELSE EmptyStr

\* line 30: cell.value if cell.value is not None else ''
CellOut(cell) == IF cell.type /= "NoneType" THEN cell ELSE EmptyStr

Values(row) == [i \in 1..Len(row) |-> CellOut(row[i])]

\* len(sys.argv) < 3
WrongArgCount_TooFew(n) == n + 1 < 3

\* line 38: len(sys.argv) != 3
WrongArgCount(n) == n + 1 /= 3

\* mode 'a'
OpenForWrite_Append(f) == [exists |-> TRUE, records |-> f.records]

\* mode 'w' of line 24: the file is created, or emptied if it exists
OpenForWrite(f) == [exists |-> TRUE, records |-> <<>>]

\* the record put ahead of what is there
WriteRecord_Prepend(f, rec) == [f EXCEPT !.records = <<rec>> \o @]

\* csvfile.write(line), the one call writerow makes
WriteRecord(f, rec) == [f EXCEPT !.records = Append(@, rec)]

\* An exception leaves the current frame for the handler of line 47.
Raise(e) == pc' = "except" /\ exc' = e

\* a plain open() that an exception leaves open
WithExit_Leak == csvfile' = csvfile

\* The `with` block of line 24 releases the handle however it is left.
WithExit == csvfile' = "closed"

\* line 39, line 34 and line 48: the three messages
Usage == [kind |-> "Usage", msg |-> ""]

Converted == [kind |-> "Converted", msg |-> ""]

Error(e) == [kind |-> "Error", msg |-> e]

Init ==
    /\ pc = "main"
    /\ argc \in 0..MaxArgs
    /\ destFile \in {Absent, OldFile}
    /\ destBefore = destFile
    /\ wb = "unopened"
    /\ sheet = <<>>
    /\ csvfile = "unopened"
    /\ idx = 0
    /\ values = <<>>
    /\ exc = ""
    /\ stdout = <<>>
    /\ stderr = <<>>
    /\ exitStatus = NoStatus

\* lines 38-43
CheckArgs ==
    /\ pc = "main"
    /\ IF WrongArgCount(argc)
       THEN /\ stderr' = Append(stderr, Usage)
            /\ exitStatus' = 1
            /\ pc' = "done"
       ELSE /\ pc' = "load"
            /\ UNCHANGED <<stderr, exitStatus>>
    /\ UNCHANGED <<argc, destFile, wb, sheet, csvfile, idx, values, exc, stdout, destBefore>>

\* the destination opened for writing ahead of the workbook
LoadWorkbook_AfterOpen ==
    /\ pc = "load"
    /\ destFile' = OpenForWrite(destFile)
    /\ \/ /\ Raise("load")
          /\ UNCHANGED <<wb, sheet>>
       \/ /\ wb' = "open"
          /\ sheet' \in Sheets
          /\ pc' = "open"
          /\ UNCHANGED exc
    /\ UNCHANGED <<argc, csvfile, idx, values, stdout, stderr, exitStatus, destBefore>>

\* lines 21-22
LoadWorkbook ==
    /\ pc = "load"
    /\ \/ /\ Raise("load")
          /\ UNCHANGED <<wb, sheet>>
       \/ /\ wb' = "open"
          /\ sheet' \in Sheets
          /\ pc' = "open"
          /\ UNCHANGED exc
    /\ UNCHANGED <<argc, destFile, csvfile, idx, values, stdout, stderr, exitStatus, destBefore>>

\* lines 24-25
OpenCsv ==
    /\ pc = "open"
    /\ \/ /\ Raise("open")
          /\ UNCHANGED <<destFile, csvfile>>
       \/ /\ destFile' = OpenForWrite(destFile)
          /\ csvfile' = "open"
          /\ pc' = "iter"
          /\ UNCHANGED exc
    /\ UNCHANGED <<argc, wb, sheet, idx, values, stdout, stderr, exitStatus, destBefore>>

\* lines 28-30: the iterator yields the next row, is exhausted, or raises
NextRow ==
    /\ pc = "iter"
    /\ \/ /\ Raise("read")
          /\ WithExit
          /\ UNCHANGED <<idx, values>>
       \/ /\ idx < Len(sheet)
          /\ idx' = idx + 1
          /\ values' = Values(sheet[idx + 1])
          /\ pc' = "write"
          /\ UNCHANGED <<exc, csvfile>>
       \/ /\ idx = Len(sheet)
          /\ WithExit
          /\ pc' = "wbclose"
          /\ UNCHANGED <<exc, idx, values>>
    /\ UNCHANGED <<argc, destFile, wb, sheet, stdout, stderr, exitStatus, destBefore>>

\* line 31
WriteRow ==
    /\ pc = "write"
    /\ \/ /\ Raise("write")
          /\ WithExit
          /\ UNCHANGED destFile
       \/ /\ destFile' = WriteRecord(destFile, FormatRecord(values))
          /\ pc' = "iter"
          /\ UNCHANGED <<exc, csvfile>>
    /\ UNCHANGED <<argc, wb, sheet, idx, values, stdout, stderr, exitStatus, destBefore>>

\* wb.close() left out
CloseWorkbook_Skipped ==
    /\ pc = "wbclose"
    /\ pc' = "print"
    /\ UNCHANGED <<argc, destFile, wb, sheet, csvfile, idx, values, exc,
                   stdout, stderr, exitStatus, destBefore>>

\* line 33
CloseWorkbook ==
    /\ pc = "wbclose"
    /\ \/ /\ Raise("close")
          /\ UNCHANGED wb
       \/ /\ wb' = "closed"
          /\ pc' = "print"
          /\ UNCHANGED exc
    /\ UNCHANGED <<argc, destFile, sheet, csvfile, idx, values, stdout, stderr, exitStatus, destBefore>>

\* line 34
PrintConverted ==
    /\ pc = "print"
    /\ \/ /\ Raise("print")
          /\ UNCHANGED stdout
       \/ /\ stdout' = Append(stdout, Converted)
          /\ pc' = "return"
          /\ UNCHANGED exc
    /\ UNCHANGED <<argc, destFile, wb, sheet, csvfile, idx, values, stderr, exitStatus, destBefore>>

\* line 46 returns and the script ends
ExitSuccess ==
    /\ pc = "return"
    /\ exitStatus' = 0
    /\ pc' = "done"
    /\ UNCHANGED <<argc, destFile, wb, sheet, csvfile, idx, values, exc, stdout, stderr, destBefore>>

\* a handler that exits without reporting
HandleException_Silent ==
    /\ pc = "except"
    /\ exitStatus' = 1
    /\ pc' = "done"
    /\ UNCHANGED <<argc, destFile, wb, sheet, csvfile, idx, values, exc,
                   stdout, stderr, destBefore>>

\* a handler that reports and falls off the end of the script
HandleException_NoExit ==
    /\ pc = "except"
    /\ stderr' = Append(stderr, Error(exc))
    /\ exitStatus' = 0
    /\ pc' = "done"
    /\ UNCHANGED <<argc, destFile, wb, sheet, csvfile, idx, values, exc, stdout, destBefore>>

\* lines 47-49
HandleException ==
    /\ pc = "except"
    /\ stderr' = Append(stderr, Error(exc))
    /\ exitStatus' = 1
    /\ pc' = "done"
    /\ UNCHANGED <<argc, destFile, wb, sheet, csvfile, idx, values, exc, stdout, destBefore>>

Next ==
    \/ CheckArgs
    \/ LoadWorkbook
    \/ OpenCsv
    \/ NextRow
    \/ WriteRow
    \/ CloseWorkbook
    \/ PrintConverted
    \/ ExitSuccess
    \/ HandleException

Spec == Init /\ [][Next]_vars

FairSpec == Spec /\ WF_vars(Next)

----------------------------------------------------------------------------
(* The writer on its own: one record of text fields handed to writerow     *)
(* with the destination open, as at line 31.                               *)

Alphabet == {"a", Delimiter, QuoteChar, "\n", "\r"}

RECURSIVE TextsOfLen(_)
TextsOfLen(n) ==
    IF n = 0 THEN {<<>>}
    ELSE {Append(t, c) : t \in TextsOfLen(n - 1), c \in Alphabet}

TextsUpTo(n) == UNION {TextsOfLen(k) : k \in 0..n}

\* Rows of at most f text cells holding at most c characters.
RECURSIVE TextRowsWithin(_, _)
TextRowsWithin(f, c) ==
    IF f = 0 THEN {<<>>}
    ELSE {<<>>} \cup
         UNION { { <<Str(t)>> \o r : r \in TextRowsWithin(f - 1, c - Len(t)) }
                 : t \in TextsUpTo(c) }

TextRows == TextRowsWithin(MaxFields, MaxChars)

CsvInit ==
    /\ pc = "write"
    /\ argc = 2
    /\ destBefore \in {Absent, OldFile}
    /\ destFile = OpenForWrite(destBefore)
    /\ wb = "open"
    /\ \E row \in TextRows : sheet = <<row>> /\ values = Values(row)
    /\ csvfile = "open"
    /\ idx = 1
    /\ exc = ""
    /\ stdout = <<>>
    /\ stderr = <<>>
    /\ exitStatus = NoStatus

CsvSpec == CsvInit /\ [][WriteRow]_vars

----------------------------------------------------------------------------
(* Reading the destination back.  A standard CSV parser (the reader of the *)
(* same dialect, non-strict): the text is cut into lines after "\n" and    *)
(* after a "\r" that no "\n" follows, each line is fed character by        *)
(* character and then an end-of-line event, and a record is delivered      *)
(* whenever that event leaves the parser at the start of a record.         *)

EOL == "EOL"

RECURSIVE Flatten(_)
Flatten(ss) == IF ss = <<>> THEN <<>> ELSE Head(ss) \o Flatten(Tail(ss))

FileText(f) == Flatten(f.records)

IsLineEnd(t, i) ==
    \/ t[i] = "\n"
    \/ t[i] = "\r" /\ (i = Len(t) \/ t[i + 1] /= "\n")

RECURSIVE Events(_, _)
Events(t, i) ==
    IF i > Len(t) THEN <<>>
    ELSE <<t[i]>>
         \o (IF IsLineEnd(t, i) \/ i = Len(t) THEN <<EOL>> ELSE <<>>)
         \o Events(t, i + 1)

ParserStart ==
    [state |-> "START_RECORD", field |-> <<>>, quoted |-> FALSE,
     fields |-> <<>>, flags |-> <<>>, rows |-> <<>>, rowflags |-> <<>>,
     error |-> FALSE]

AddChar(p, c) == [p EXCEPT !.field = Append(@, c)]

SaveField(p) ==
    [p EXCEPT !.fields = Append(@, p.field), !.flags = Append(@, p.quoted),
              !.field = <<>>, !.quoted = FALSE]

AfterField(p, c) ==
    [SaveField(p) EXCEPT !.state = IF c = EOL THEN "START_RECORD" ELSE "EAT_CRNL"]

IsBreak(c) == c = "\n" \/ c = "\r" \/ c = EOL

StartField(p, c) ==
    IF IsBreak(c) THEN AfterField(p, c)
    ELSE IF c = QuoteChar THEN [p EXCEPT !.state = "IN_QUOTED_FIELD", !.quoted = TRUE]
    ELSE IF c = Delimiter THEN [SaveField(p) EXCEPT !.state = "START_FIELD"]
    ELSE [AddChar(p, c) EXCEPT !.state = "IN_FIELD"]

ProcessChar(p, c) ==
    CASE p.state = "START_RECORD" ->
            IF c = EOL THEN p
            ELSE IF IsBreak(c) THEN [p EXCEPT !.state = "EAT_CRNL"]
            ELSE StartField(p, c)
      [] p.state = "START_FIELD" -> StartField(p, c)
      [] p.state = "IN_FIELD" ->
            IF IsBreak(c) THEN AfterField(p, c)
            ELSE IF c = Delimiter THEN [SaveField(p) EXCEPT !.state = "START_FIELD"]
            ELSE AddChar(p, c)
      [] p.state = "IN_QUOTED_FIELD" ->
            IF c = EOL THEN p
            ELSE IF c = QuoteChar THEN [p EXCEPT !.state = "QUOTE_IN_QUOTED_FIELD"]
            ELSE AddChar(p, c)
      [] p.state = "QUOTE_IN_QUOTED_FIELD" ->
            IF c = QuoteChar THEN [AddChar(p, c) EXCEPT !.state = "IN_QUOTED_FIELD"]
            ELSE IF c = Delimiter THEN [SaveField(p) EXCEPT !.state = "START_FIELD"]
            ELSE IF IsBreak(c) THEN AfterField(p, c)
            ELSE [AddChar(p, c) EXCEPT !.state = "IN_FIELD"]
      [] p.state = "EAT_CRNL" ->
            IF c = EOL THEN [p EXCEPT !.state = "START_RECORD"]
            ELSE IF IsBreak(c) THEN p
            ELSE [p EXCEPT !.error = TRUE]

Deliver(p) ==
    [p EXCEPT !.rows = Append(@, p.fields), !.rowflags = Append(@, p.flags),
              !.fields = <<>>, !.flags = <<>>]

RECURSIVE Feed(_, _)
Feed(p, ev) ==
    IF ev = <<>> THEN
        IF p.state = "START_RECORD" THEN p
        ELSE IF p.field /= <<>> \/ p.state = "IN_QUOTED_FIELD"
             THEN Deliver(SaveField(p))
        ELSE Deliver(p)
    ELSE LET q == ProcessChar(p, Head(ev))
         IN  Feed(IF Head(ev) = EOL /\ q.state = "START_RECORD" THEN Deliver(q) ELSE q,
                  Tail(ev))

ParseCsv(t) == Feed(ParserStart, Events(t, 1))

\* str.split on the delimiter
RECURSIVE SplitOn(_, _)
SplitOn(t, d) ==
    IF \E i \in 1..Len(t) : t[i] = d
    THEN LET i == CHOOSE j \in 1..Len(t) : t[j] = d /\ \A k \in 1..(j - 1) : t[k] /= d
         IN  <<SubSeq(t, 1, i - 1)>> \o SplitOn(SubSeq(t, i + 1, Len(t)), d)
    ELSE <<t>>

StrRow(vals) == [i \in 1..Len(vals) |-> vals[i].repr]

\* The record of row k of the sheet, as lines 30-31 build it.
RecordOf(k) == FormatRecord(Values(sheet[k]))

RecordsOf(n) == [k \in 1..n |-> RecordOf(k)]

----------------------------------------------------------------------------
(* Properties *)

Finished == pc = "done"

Succeeded == Finished /\ argc = 2 /\ exc = ""

\* C1: a run in which no step fails leaves exactly one record per row of the
\* sheet in the destination, the k-th record being the one built from the
\* k-th row, nothing skipped, repeated, reordered or put ahead of them; read
\* back, the file has as many records as the sheet has rows.
C1_RecordsMatchRows ==
    Succeeded =>
        /\ destFile.exists
        /\ Len(destFile.records) = Len(sheet)
        /\ \A k \in 1..Len(sheet) : destFile.records[k] = RecordOf(k)
        /\ ParseCsv(FileText(destFile)).rows
             = [k \in 1..Len(sheet) |-> StrRow(Values(sheet[k]))]

C1_Witness ==
    /\ Succeeded
    /\ Len(sheet) = 2
    /\ sheet[1] /= sheet[2]

\* C2: the list handed to the writer has one field per cell of the row, in
\* column order: the empty string where the cell is null, the cell's value
\* itself (0, False and '' included) everywhere else.
C2_NullBecomesEmpty ==
    pc = "write" =>
        /\ Len(values) = Len(sheet[idx])
        /\ \A i \in 1..Len(values) :
              values[i] = IF sheet[idx][i] = None THEN EmptyStr ELSE sheet[idx][i]

C2_Witness ==
    /\ pc = "write"
    /\ Len(sheet[idx]) = 2
    /\ sheet[idx][1] = None
    /\ sheet[idx][2].type = "int"
    /\ values[2].type = "int"

\* C3: with any number of arguments other than two the script prints the
\* usage message to the error stream and exits with status 1 before any
\* I/O: workbook never opened, destination never opened or changed, neither
\* the success message nor an error message printed.
C3_UsageBeforeIO ==
    argc /= 2 =>
        /\ wb = "unopened"
        /\ csvfile = "unopened"
        /\ destFile = destBefore
        /\ stdout = <<>>
        /\ \/ pc = "main" /\ stderr = <<>> /\ exitStatus = NoStatus
           \/ pc = "done" /\ stderr = <<Usage>> /\ exitStatus = 1

C3_Witness ==
    /\ argc = 3
    /\ Finished
    /\ exitStatus = 1
    /\ destBefore = OldFile

C4_CaughtOnce ==
    /\ Finished => exitStatus \in {0, 1}
    /\ exc /= "" => pc \in {"except", "done"}
    /\ (Finished /\ exc /= "") => exitStatus = 1 /\ stderr = <<Error(exc)>>
    /\ exitStatus = 1 => Len(stderr) = 1
    /\ (exitStatus = 1 /\ argc = 2) => exc /= ""

\* C4: with two arguments, a failure at any step is caught once: exactly one
\* Error line naming it goes to the error stream and the process exits with
\* status 1, no step being tried again; every run ends, with status 0 or 1,
\* and never with status 1 and nothing printed.
C4_FailureReported == []C4_CaughtOnce /\ <>Finished

C4_Witness ==
    /\ Finished
    /\ exc = "print"
    /\ exitStatus = 1
    /\ stderr = <<Error("print")>>

\* C5: with two arguments the exit status is 0 exactly when the success
\* message was printed; it is printed only once every row has been written,
\* the destination handle released and the reader closed; no run prints both
\* it and an error message.
C5_SuccessMessage ==
    /\ (Finished /\ argc = 2) => (exitStatus = 0 <=> stdout = <<Converted>>)
    /\ stdout /= <<>> =>
          /\ stdout = <<Converted>>
          /\ idx = Len(sheet)
          /\ Len(destFile.records) = Len(sheet)
          /\ csvfile = "closed"
          /\ wb = "closed"
          /\ stderr = <<>>

C5_Witness ==
    /\ Finished
    /\ exitStatus = 0
    /\ stdout = <<Converted>>
    /\ Len(sheet) = 2

\* C6: once opened, the destination handle is released before anything is
\* printed and before the process ends, whether the rows ran out or a read
\* or a write failed part-way.
C6_HandleReleased ==
    /\ (stdout /= <<>> \/ stderr /= <<>>) => csvfile /= "open"
    /\ pc \in {"wbclose", "print", "return", "except", "done"} => csvfile /= "open"
    /\ (Finished /\ destFile /= destBefore) => csvfile = "closed"

C6_Witness ==
    /\ Finished
    /\ exc = "write"
    /\ idx = 2
    /\ csvfile = "closed"

\* The characters the claim names: the delimiter, the quote character and
\* the line breaks.
NamedChars == {",", "\"", "\n", "\r"}

HasNamedChar(t) == \E i \in 1..Len(t) : t[i] \in NamedChars

\* the written record without its line terminator
WrittenLine == SubSeq(destFile.records[1], 1, Len(destFile.records[1]) - 2)

Written == pc = "iter" /\ Len(destFile.records) = 1

\* C7 as stated: a text field is quoted exactly when it holds one of the
\* named characters, a CSV parser recovers every value, and a record of
\* values holding none of them splits on the delimiter into those values.
C7_QuotedIffNamedChar ==
    Written =>
        LET p == ParseCsv(FileText(destFile))
            strs == StrRow(values)
        IN  /\ ~p.error
            /\ p.rows = <<strs>>
            /\ \A i \in 1..Len(strs) : p.rowflags[1][i] <=> HasNamedChar(strs[i])
            /\ (Len(strs) > 0 /\ \A i \in 1..Len(strs) : ~HasNamedChar(strs[i]))
                  => SplitOn(WrittenLine, ",") = strs

SoleEmpty(strs) == strs = << <<>> >>

\* C7, amended: a text field is quoted exactly when it holds one of the
\* named characters or is the empty string and the only field of its
\* record; a CSV parser recovers every value; a record of values holding
\* none of the named characters splits on the delimiter into those values,
\* unless it is the lone empty field, which is written as two quotes.
C7_QuotedIffNamedCharOrSoleEmpty ==
    Written =>
        LET p == ParseCsv(FileText(destFile))
            strs == StrRow(values)
        IN  /\ ~p.error
            /\ p.rows = <<strs>>
            /\ \A i \in 1..Len(strs) :
                  p.rowflags[1][i] <=> (HasNamedChar(strs[i]) \/ SoleEmpty(strs))
            /\ (Len(strs) > 0 /\ ~SoleEmpty(strs)
                  /\ \A i \in 1..Len(strs) : ~HasNamedChar(strs[i]))
                  => SplitOn(WrittenLine, ",") = strs
            /\ SoleEmpty(strs) => WrittenLine = <<"\"", "\"">>

C7_Witness ==
    /\ Written
    /\ Len(values) = 2
    /\ values[1].repr = <<"\n">>
    /\ values[2].repr = <<"a">>
    /\ WrittenLine = <<"\"", "\n", "\"", ",", "a">>

\* rows written when the failure struck
WrittenAtFailure ==
    CASE exc = "read" -> idx
      [] exc = "write" -> idx - 1
      [] OTHER -> Len(sheet)

FailedAfterOpen == exc \in {"read", "write", "close", "print"}

\* C8: a failure after the destination was opened and k rows were written
\* leaves the destination in place, its earlier content gone, holding
\* exactly the records of the first k rows in order; nothing is deleted or
\* rolled back, and the run ends with the Error message and status 1.
C8_PartialOutputKept ==
    FailedAfterOpen =>
        /\ destFile.exists
        /\ destFile.records = RecordsOf(WrittenAtFailure)
        /\ Finished => exitStatus = 1 /\ stderr = <<Error(exc)>>

C8_Witness ==
    /\ Finished
    /\ exc = "write"
    /\ idx = 2
    /\ destBefore = OldFile
    /\ destFile.records = <<RecordOf(1)>>

\* C9: the workbook is loaded before the destination is opened; when loading
\* fails the run ends with the error message and status 1 and the
\* destination is as it was, neither created nor emptied.
C9_LoadBeforeOpen ==
    /\ csvfile /= "unopened" => wb /= "unopened"
    /\ destFile /= destBefore => wb /= "unopened"
    /\ exc = "load" =>
          /\ destFile = destBefore
          /\ csvfile = "unopened"
          /\ Finished => exitStatus = 1 /\ stderr = <<Error("load")>>

C9_Witness ==
    /\ Finished
    /\ exc = "load"
    /\ destFile = OldFile
    /\ exitStatus = 1

\* C10 as stated: whenever the workbook was opened, the reader is closed by
\* the time the process ends, failed runs included.
C10_ReaderAlwaysClosed == (Finished /\ wb /= "unopened") => wb = "closed"

\* C10, amended: whenever the workbook was opened, the reader is closed by
\* the time the process ends exactly in the runs in which the destination
\* was opened, every row read and written and the close itself did not fail;
\* a run in which opening the destination, reading a row or writing a record
\* fails ends with the reader still open.
C10_ReaderClosedUnlessFailed ==
    (Finished /\ wb /= "unopened") =>
        (wb = "closed" <=> exc \notin {"open", "read", "write", "close"})

C10_Witness ==
    /\ Finished
    /\ exc = "read"
    /\ wb = "open"
    /\ idx = 1

====
